---- MODULE Spec2Model ----
(***************************************************************************)
(* Model of controllers/application_controller.go: the reconcile pass of   *)
(* the Application controller (Reconcile, fetchComponentListResources,     *)
(* setOwnerRefForResources, objectStatuses, aggregateReady) against an      *)
(* object store holding one Application and its component resources.       *)
(***************************************************************************)
EXTENDS Integers, Sequences, FiniteSets, TLC

\* ---------------------------------------------------------------- bounds
MaxWidgets == 2    \* Widgets that carry the Application's label
MaxKinds == 3      \* length of spec.componentGroupKinds
MaxExternal == 1   \* writes by actors other than the reconciler
MaxStatuses == 3   \* length of the resource sequences evaluated directly

\* ------------------------------------------------------------ vocabulary
Nil == "nil"
AppName == "app1"
AppNamespace == "ns1"
AppLabel == "app1"
AppUID == "uid-1"

WidgetGK == [group |-> "acme.io", kind |-> "Widget"]
GadgetGK == [group |-> "tools.io", kind |-> "Gadget"]
UnknownGK == [group |-> "x", kind |-> "DoesNotExist"]
GroupKinds == {WidgetGK, GadgetGK, UnknownGK}

StatusReady == "Ready"
Classifications == {"Ready", "InProgress", "Failed"}
\* what a resource reports about itself; "Malformed" is unreadable condition data
Reports == {"Ready", "InProgress", "Malformed"}

\* Resource names are integers: Widgets 1..MaxWidgets match the selector,
\* Widget -1 carries another label, Widget -2 lives in another namespace,
\* Gadget 0 matches the selector.
WidgetIds == 1 .. MaxWidgets
ResIds == (-2) .. MaxWidgets

KindOf(id) == IF id = 0 THEN GadgetGK ELSE WidgetGK

IsInjective(s) == \A i, j \in 1 .. Len(s) : s[i] = s[j] => i = j

RECURSIVE SeqsUpTo(_, _)
SeqsUpTo(S, n) ==
    IF n = 0 THEN {<<>>}
    ELSE LET shorter == SeqsUpTo(S, n - 1)
         IN  shorter \cup {Append(s, x) : s \in {t \in shorter : Len(t) = n - 1}, x \in S}

Reverse(s) == [i \in 1 .. Len(s) |-> s[Len(s) + 1 - i]]

VARIABLES
    appStore,     \* the Application as stored
    catalog,      \* the component resources as stored, by name
    listOrder,    \* the order in which the catalog returns the items of a list
    externals,    \* writes by other actors so far
    pc,           \* position of the reconcile pass
    app,          \* Reconcile: var app, as read by Get
    kindIdx,      \* fetchComponentListResources: position in groupKinds
    cells,        \* the loop variables u of fetchComponentListResources, one per list with items
    resources,    \* fetchComponentListResources: resources, each entry the address of a cell
    resIdx,       \* setOwnerRefForResources: position in resources
    result,       \* what Reconcile returned: (ctrl.Result.Requeue, err)
    appUpdates,   \* Update calls made for the Application in this pass
    resUpdates,   \* Update calls made for component resources in this pass
    listed,       \* what the list calls of this pass returned, in call order
    log,          \* log entries of this pass
    candidate,    \* newApplicationStatus of this pass
    prevOK,       \* the previous pass returned without error
    changedSince, \* another actor wrote since the previous pass returned
    failed,       \* the calls of this pass that returned an error
    evalIn,       \* a resources slice handed to objectStatuses directly
    evalOut,      \* what objectStatuses returned for it
    aggOut,       \* what aggregateReady returned for evalOut
    initialRefs,  \* the owner references each resource carried before the first pass
    other         \* the pass of the reconciler for a second Application

storeVars == <<appStore, catalog, listOrder>>
envVars == <<externals, initialRefs, other>>
passVars == <<pc, app, kindIdx, cells, resources, resIdx, result>>
obsVars == <<appUpdates, resUpdates, listed, log, candidate, failed>>
histVars == <<prevOK, changedSince>>
aggVars == <<evalIn, evalOut, aggOut>>
vars == <<storeVars, envVars, passVars, obsVars, histVars, aggVars>>

\* ---------------------------------------------------------------- values
NoCondition == [type |-> "none"]
NoSelector == [present |-> FALSE]
Selector(label) == [present |-> TRUE, matchLabels |-> label]
NoCandidate == [set |-> FALSE]
NotCalled == [called |-> FALSE]
NoStatus == [observedGeneration |-> 0, objects |-> <<>>, condition |-> NoCondition]
NoApp == [present |-> FALSE]
NoResult == [requeue |-> FALSE, err |-> "pending"]

Success == [requeue |-> FALSE, err |-> Nil]
Retry(e) == [requeue |-> TRUE, err |-> e]

MakeResource(id, present, report, refs) ==
    [group |-> KindOf(id).group, kind |-> KindOf(id).kind,
     namespace |-> IF id = -2 THEN "ns2" ELSE AppNamespace,
     name |-> id, link |-> id,
     label |-> IF id = -1 THEN "other" ELSE AppLabel,
     present |-> present, report |-> report, ownerRefs |-> refs, rv |-> 1]

MakeApp(gks, selector, addOwnerRef, status) ==
    [present |-> TRUE, name |-> AppName, namespace |-> AppNamespace, uid |-> AppUID,
     deletionTimestamp |-> Nil, generation |-> 1, rv |-> 1,
     spec |-> [componentGroupKinds |-> gks, selector |-> selector, addOwnerRef |-> addOwnerRef],
     status |-> status]

\* A status left behind by an earlier controller version or pass.
StaleStatus ==
    [observedGeneration |-> 0,
     objects |-> <<[group |-> "tools.io", kind |-> "Gadget", name |-> 0, link |-> 0,
                    status |-> "Failed"]>>,
     condition |-> [type |-> "Ready", status |-> "False", reason |-> "ComponentsNotReady",
                    message |-> "some components not ready"]]

\* spec.componentGroupKinds: lists of different kinds, known or not.
GroupKindLists == {gks \in SeqsUpTo(GroupKinds, MaxKinds) : IsInjective(gks)}

DefaultCatalog == [id \in ResIds |-> MakeResource(id, TRUE, "Ready", <<>>)]

\* The labelled Widgets that exist are 1..n, each with any report; the Gadget
\* exists and is readable; the two Widgets outside the selection never change.
WidgetReports == [WidgetIds -> Reports \cup {"absent"}]
Catalogs ==
    {[id \in ResIds |->
        IF id \in WidgetIds THEN MakeResource(id, w[id] # "absent",
                                              IF w[id] = "absent" THEN "Ready" ELSE w[id], <<>>)
        ELSE IF id = 0 THEN MakeResource(id, TRUE, g, <<>>)
        ELSE MakeResource(id, TRUE, "Ready", <<>>)]
     : w \in {v \in WidgetReports : \A i \in WidgetIds :
                  (i > 1 /\ v[i] # "absent") => v[i - 1] # "absent"},
       g \in {"Ready", "InProgress"}}

\* Owner references a resource may carry before the Application claims it: one of
\* another owner, one naming an earlier Application of the same name (another
\* UID), and one naming this Application.
OtherRef ==
    [apiVersion |-> "apps/v1", kind |-> "Deployment", name |-> "dep", uid |-> "uid-dep",
     controller |-> TRUE, blockOwnerDeletion |-> TRUE]
StaleRef ==
    [apiVersion |-> "app.k8s.io/v1beta1", kind |-> "Application", name |-> AppName,
     uid |-> "uid-0", controller |-> FALSE, blockOwnerDeletion |-> TRUE]
CurrentRef == [StaleRef EXCEPT !.uid = AppUID]
InitialOwnerRefs ==
    {<<>>, <<OtherRef>>, <<StaleRef, OtherRef>>, <<OtherRef, StaleRef>>, <<OtherRef, CurrentRef>>}

\* Every resource exists and is ready; the selected Gadget carries any initial
\* list and the selected Widgets carry any initial list, the same for each.
OwnedCatalogs ==
    {[id \in ResIds |-> MakeResource(id, TRUE, "Ready",
                                      IF id = 0 THEN g ELSE IF id > 0 THEN w ELSE <<>>)]
     : g \in InitialOwnerRefs, w \in InitialOwnerRefs}

\* A second Application in the same namespace with the same selector, opted in
\* to ownership claiming, and where its pass stands: its loop variable cells,
\* its resources slice, its position in the slice, and its stored status.
App2 ==
    [MakeApp(<<WidgetGK>>, Selector(AppLabel), TRUE, NoStatus)
        EXCEPT !.name = "app2", !.uid = "uid-2"]
OtherIdle(st) == [pc |-> "idle", cells |-> <<>>, resources |-> <<>>, resIdx |-> 0, status |-> st]

PassIdle ==
    /\ app = NoApp /\ kindIdx = 0
    /\ cells = <<>> /\ resources = <<>> /\ resIdx = 0 /\ result = NoResult
    /\ appUpdates = 0 /\ resUpdates = <<>> /\ listed = <<>> /\ log = {}
    /\ candidate = NoCandidate /\ prevOK = FALSE /\ changedSince = FALSE
    /\ failed = {} /\ externals = 0
    /\ other = OtherIdle(NoStatus)

\* Resource sequences for evaluating objectStatuses and aggregateReady on their
\* own: different resources, each with any report.
EvalReports == Reports \cup {"Failed"}
EvalInputs ==
    UNION {{[i \in 1 .. n |-> MakeResource(i, TRUE, r[i], <<>>)] : r \in [1 .. n -> EvalReports]}
           : n \in 0 .. MaxStatuses}

Init ==
    /\ PassIdle
    /\ evalOut = <<>> /\ aggOut = FALSE
    /\ listOrder \in {"ascending", "descending"}
    /\ \/ /\ pc = "idle" /\ evalIn = <<>>
          /\ appStore = NoApp
          /\ catalog = DefaultCatalog
          /\ listOrder = "ascending"
       \/ /\ pc = "idle" /\ evalIn = <<>>
          /\ \E gks \in GroupKindLists :
                appStore = MakeApp(gks, NoSelector, FALSE, NoStatus)
          /\ catalog = DefaultCatalog
          /\ listOrder = "ascending"
       \/ /\ pc = "idle" /\ evalIn = <<>>
          /\ \E gks \in GroupKindLists, own \in BOOLEAN, st \in {NoStatus, StaleStatus} :
                /\ own => st = NoStatus
                /\ appStore = MakeApp(gks, Selector(AppLabel), own, st)
          /\ catalog \in Catalogs
          /\ listOrder = "descending" => catalog[2].present
       \/ /\ pc = "idle" /\ evalIn = <<>>
          /\ appStore = MakeApp(<<WidgetGK, GadgetGK>>, Selector(AppLabel), TRUE, NoStatus)
          /\ catalog \in OwnedCatalogs
          /\ listOrder = "ascending"
       \/ /\ pc = "idle" /\ evalIn = <<>>
          /\ \E own \in BOOLEAN :
                appStore = [MakeApp(<<WidgetGK, GadgetGK>>, Selector(AppLabel), own, NoStatus)
                               EXCEPT !.deletionTimestamp = "set"]
          /\ catalog = DefaultCatalog
          /\ listOrder = "ascending"
       \/ /\ pc = "evaluate" /\ evalIn \in EvalInputs
          /\ appStore = NoApp
          /\ catalog = DefaultCatalog
          /\ listOrder = "ascending"
    /\ initialRefs = [id \in ResIds |-> catalog[id].ownerRefs]

\* ------------------------------------------------- external collaborators
\* r.Mapper.RESTMapping: the kinds the cluster knows.
RESTMapping(gk) == gk \in {WidgetGK, GadgetGK}

CatalogOrder ==
    LET ascending == [i \in 1 .. MaxWidgets + 3 |-> i - 3]
    IN  IF listOrder = "ascending" THEN ascending ELSE Reverse(ascending)

\* r.Client.List with client.InNamespace and client.MatchingLabels: the stored
\* resources of the kind, in that namespace, carrying the label, in catalog order.
List(gk, namespace, matchLabels) ==
    LET Matches(id) == /\ catalog[id].present
                       /\ KindOf(id) = gk
                       /\ catalog[id].namespace = namespace
                       /\ catalog[id].label = matchLabels
        ids == SelectSeq(CatalogOrder, Matches)
    IN  [i \in 1 .. Len(ids) |-> catalog[ids[i]]]

\* status(resource): the classification a resource reports, or an error when its
\* condition data cannot be read.
status(resource) ==
    IF resource.report = "Malformed"
    THEN [s |-> "Unknown", err |-> "unreadable"]
    ELSE [s |-> resource.report, err |-> Nil]

\* setCondition as used by setReadyCondition / setNotReadyCondition: the status
\* carries one readiness condition with a fixed reason and message.
SetCondition(st, value, reason, message) ==
    [st EXCEPT !.condition = [type |-> "Ready", status |-> value, reason |-> reason,
                              message |-> message]]
setReadyCondition(st, reason, message) == SetCondition(st, "True", reason, message)
setNotReadyCondition(st, reason, message) == SetCondition(st, "False", reason, message)

\* equality.Semantic.DeepEqual(a1, a2): values of different dynamic types are
\* never equal; values of one type are compared structurally.
Pointer(t, v) == [type |-> "*" \o t, val |-> v]
Value(t, v) == [type |-> t, val |-> v]
SemanticDeepEqual(a1, a2) == a1.type = a2.type /\ a1.val = a2.val

\* Variant: the store takes any update of an object that exists.
Accepts_Blind(stored, obj) == stored.present

\* The store accepts an update of an object that exists at the version the
\* caller read; a write that changes nothing leaves the version as it is.
Accepts(stored, obj) == stored.present /\ stored.rv = obj.rv
Written(stored, obj) == IF obj = stored THEN stored ELSE [obj EXCEPT !.rv = stored.rv + 1]

\* ---------------------------------------------------------- the controller
\* metav1.NewControllerRef(&app, ...) followed by *ownerRef.Controller = false
\* Variant: the reference is left as NewControllerRef made it.
NewOwnerRef_Controlling(a) ==
    [apiVersion |-> "app.k8s.io/v1beta1", kind |-> "Application", name |-> a.name,
     uid |-> a.uid, controller |-> TRUE, blockOwnerDeletion |-> TRUE]

NewOwnerRef(a) ==
    [apiVersion |-> "app.k8s.io/v1beta1", kind |-> "Application", name |-> a.name,
     uid |-> a.uid, controller |-> FALSE, blockOwnerDeletion |-> TRUE]

\* The range loop of fetchComponentListResources: the loop variable u is one
\* variable for the whole loop, every appended &u is its address, and after the
\* loop it holds the last item.
AppendItems(cs, rs, items) ==
    IF items = <<>> THEN [cells |-> cs, resources |-> rs]
    ELSE [cells |-> Append(cs, items[Len(items)]),
          resources |-> rs \o [i \in 1 .. Len(items) |-> Len(cs) + 1]]

\* setOwnerRefForResources, the scan of one resource's owner references.
SameOwner(ownerRef, refs) ==
    /\ ownerRef.kind = refs.kind
    /\ ownerRef.apiVersion = refs.apiVersion
    /\ ownerRef.name = refs.name

\* Variant: the reference is appended whether or not an entry was found.
SetOwnerReference_AlwaysAppends(ownerRefs, ownerRef) ==
    LET scanned == [i \in 1 .. Len(ownerRefs) |->
                       IF SameOwner(ownerRef, ownerRefs[i]) /\ ownerRef.uid # ownerRefs[i].uid
                       THEN ownerRef ELSE ownerRefs[i]]
    IN  Append(scanned, ownerRef)

SetOwnerReference(ownerRefs, ownerRef) ==
    LET ownerRefFound == \E i \in 1 .. Len(ownerRefs) : SameOwner(ownerRef, ownerRefs[i])
        scanned == [i \in 1 .. Len(ownerRefs) |->
                       IF SameOwner(ownerRef, ownerRefs[i]) /\ ownerRef.uid # ownerRefs[i].uid
                       THEN ownerRef ELSE ownerRefs[i]]
    IN  IF ownerRefFound THEN scanned ELSE Append(scanned, ownerRef)

ObjectStatusOf(resource, s) ==
    [group |-> resource.group, kind |-> resource.kind, name |-> resource.name,
     link |-> resource.link, status |-> s]

\* Variant: the loop stops at the first resource whose status cannot be computed.
RECURSIVE objectStatuses_Break(_)
objectStatuses_Break(objs) ==
    IF objs = <<>> THEN <<>>
    ELSE LET resource == Head(objs)
             st == status(resource)
         IN  IF st.err # Nil THEN <<>>
             ELSE <<ObjectStatusOf(resource, st.s)>> \o objectStatuses_Break(Tail(objs))

RECURSIVE objectStatuses(_)
objectStatuses(objs) ==
    IF objs = <<>> THEN <<>>
    ELSE LET resource == Head(objs)
             st == status(resource)
         IN  IF st.err # Nil THEN objectStatuses(Tail(objs))
             ELSE <<ObjectStatusOf(resource, st.s)>> \o objectStatuses(Tail(objs))

\* Variant: the loop returns on its first entry, whatever it is.
aggregateReady_FirstOnly(os) ==
    IF os = <<>> THEN TRUE ELSE Head(os).status = StatusReady

RECURSIVE aggregateReady(_)
aggregateReady(os) ==
    IF os = <<>> THEN TRUE
    ELSE IF Head(os).status # StatusReady THEN FALSE
    ELSE aggregateReady(Tail(os))

\* The resources slice seen through its pointers.
Deref(cs, rs) == [i \in 1 .. Len(rs) |-> cs[rs[i]]]

\* Variant: the observed generation is left as it was stored.
NewApplicationStatus_KeepsGeneration(a, objs) ==
    LET os == objectStatuses(objs)
        copied == [a.status EXCEPT !.objects = os]
    IN  IF aggregateReady(os)
        THEN setReadyCondition(copied, "ComponentsReady", "all components ready")
        ELSE setNotReadyCondition(copied, "ComponentsNotReady", "some components not ready")

\* Reconcile, lines 84-98: the candidate status.
NewApplicationStatus(a, objs) ==
    LET os == objectStatuses(objs)
        copied == [a.status EXCEPT !.observedGeneration = a.generation, !.objects = os]
    IN  IF aggregateReady(os)
        THEN setReadyCondition(copied, "ComponentsReady", "all components ready")
        ELSE setNotReadyCondition(copied, "ComponentsNotReady", "some components not ready")

\* Reconcile, line 102: newApplicationStatus is the pointer DeepCopy returned,
\* app.Status is the struct itself.
StatusUnchanged(newStatus, a) ==
    SemanticDeepEqual(Pointer("ApplicationStatus", newStatus), Value("ApplicationStatus", a.status))

\* ------------------------------------------------------------ Reconcile
Return(r) == pc' = "done" /\ result' = r

\* r.Get fails with an error other than NotFound (lines 58-63).
GetError ==
    /\ pc = "idle"
    /\ failed' = failed \cup {"get"}
    /\ Return(Retry("GetError"))
    /\ UNCHANGED <<storeVars, envVars, app, kindIdx, cells, resources, resIdx,
                   appUpdates, resUpdates, listed, log, candidate, histVars, aggVars>>

\* r.Get answers NotFound (lines 60-62).
GetNotFound ==
    /\ pc = "idle" /\ ~appStore.present
    /\ Return(Success)
    /\ UNCHANGED <<storeVars, envVars, app, kindIdx, cells, resources, resIdx,
                   obsVars, histVars, aggVars>>

\* Variant: the deletion timestamp is not looked at.
GetFound_IgnoresDeletion ==
    /\ pc = "idle" /\ appStore.present
    /\ app' = appStore
    /\ pc' = "fetch" /\ kindIdx' = 1 /\ UNCHANGED result
    /\ UNCHANGED <<storeVars, envVars, cells, resources, resIdx, obsVars, histVars, aggVars>>

\* r.Get returns the Application; a deletion timestamp ends the pass (lines 58-69).
GetFound ==
    /\ pc = "idle" /\ appStore.present
    /\ app' = appStore
    /\ IF appStore.deletionTimestamp # Nil
       THEN Return(Success) /\ UNCHANGED kindIdx
       ELSE pc' = "fetch" /\ kindIdx' = 1 /\ UNCHANGED result
    /\ UNCHANGED <<storeVars, envVars, cells, resources, resIdx, obsVars, histVars, aggVars>>

\* ------------------------------------------- fetchComponentListResources
Fetching == pc = "fetch" /\ kindIdx <= Len(app.spec.componentGroupKinds)
CurrentGK == app.spec.componentGroupKinds[kindIdx]

\* Variant: an unknown kind ends the loop instead of being skipped.
FetchSkipUnknown_Break ==
    /\ Fetching /\ ~RESTMapping(CurrentGK)
    /\ log' = log \cup {[msg |-> "NoMappingForGK",
                         subject |-> <<CurrentGK.group, CurrentGK.kind>>]}
    /\ kindIdx' = Len(app.spec.componentGroupKinds) + 1
    /\ UNCHANGED <<storeVars, envVars, pc, app, cells, resources, resIdx, result,
                   appUpdates, resUpdates, listed, candidate, failed, histVars, aggVars>>

\* RESTMapping fails: log and continue (lines 117-124).
FetchSkipUnknown ==
    /\ Fetching /\ ~RESTMapping(CurrentGK)
    /\ log' = log \cup {[msg |-> "NoMappingForGK",
                         subject |-> <<CurrentGK.group, CurrentGK.kind>>]}
    /\ kindIdx' = kindIdx + 1
    /\ UNCHANGED <<storeVars, envVars, pc, app, cells, resources, resIdx, result,
                   appUpdates, resUpdates, listed, candidate, failed, histVars, aggVars>>

\* selector.MatchLabels with a nil selector: the argument of the List call
\* cannot be evaluated (line 128).
FetchNilSelector ==
    /\ Fetching /\ RESTMapping(CurrentGK) /\ ~app.spec.selector.present
    /\ pc' = "panic"
    /\ UNCHANGED <<storeVars, envVars, app, kindIdx, cells, resources, resIdx, result,
                   obsVars, histVars, aggVars>>

\* Variant: a failed list is treated like an unknown kind.
FetchListError_Continue ==
    /\ Fetching /\ RESTMapping(CurrentGK) /\ app.spec.selector.present
    /\ failed' = failed \cup {"list"}
    /\ kindIdx' = kindIdx + 1
    /\ UNCHANGED <<storeVars, envVars, pc, app, cells, resources, resIdx, result,
                   appUpdates, resUpdates, listed, log, candidate, histVars, aggVars>>

\* r.Client.List fails: the pass returns the error (lines 128-130, 72-74).
FetchListError ==
    /\ Fetching /\ RESTMapping(CurrentGK) /\ app.spec.selector.present
    /\ failed' = failed \cup {"list"}
    /\ Return(Retry("ListError"))
    /\ UNCHANGED <<storeVars, envVars, app, kindIdx, cells, resources, resIdx,
                   appUpdates, resUpdates, listed, log, candidate, histVars, aggVars>>

\* r.Client.List succeeds and its items are appended (lines 126-134).
FetchList ==
    /\ Fetching /\ RESTMapping(CurrentGK) /\ app.spec.selector.present
    /\ LET items == List(CurrentGK, app.namespace, app.spec.selector.matchLabels)
           appended == AppendItems(cells, resources, items)
       IN  /\ cells' = appended.cells
           /\ resources' = appended.resources
           /\ listed' = listed \o items
    /\ kindIdx' = kindIdx + 1
    /\ UNCHANGED <<storeVars, envVars, pc, app, resIdx, result,
                   appUpdates, resUpdates, log, candidate, failed, histVars, aggVars>>

\* Variant: the owner references are set whatever spec.addOwnerRef says.
FetchReturn_AlwaysClaims ==
    /\ pc = "fetch" /\ kindIdx > Len(app.spec.componentGroupKinds)
    /\ pc' = "owner"
    /\ resIdx' = 1
    /\ UNCHANGED <<storeVars, envVars, app, kindIdx, cells, resources, result,
                   obsVars, histVars, aggVars>>

\* return resources, nil; then the AddOwnerRef branch of Reconcile (lines 136, 76).
FetchReturn ==
    /\ pc = "fetch" /\ kindIdx > Len(app.spec.componentGroupKinds)
    /\ pc' = IF app.spec.addOwnerRef THEN "owner" ELSE "status"
    /\ resIdx' = 1
    /\ UNCHANGED <<storeVars, envVars, app, kindIdx, cells, resources, result,
                   obsVars, histVars, aggVars>>

\* ---------------------------------------------- setOwnerRefForResources
Claiming == pc = "owner" /\ resIdx <= Len(resources)
Claimed ==
    LET resource == cells[resources[resIdx]]
    IN  [resource EXCEPT !.ownerRefs = SetOwnerReference(resource.ownerRefs, NewOwnerRef(app))]
UpdateCall(resource, ok) ==
    [group |-> resource.group, kind |-> resource.kind, namespace |-> resource.namespace,
     name |-> resource.name, ok |-> ok]

\* Variant: the Update is taken whatever version of the resource was read.
SetOwnerRefUpdated_Unchecked ==
    /\ Claiming
    /\ LET written == Written(catalog[Claimed.name], Claimed)
       IN  /\ catalog' = [catalog EXCEPT ![Claimed.name] = written]
           /\ cells' = [cells EXCEPT ![resources[resIdx]] = written]
    /\ resUpdates' = Append(resUpdates, UpdateCall(Claimed, TRUE))
    /\ resIdx' = resIdx + 1
    /\ UNCHANGED <<appStore, listOrder, envVars, pc, app, kindIdx, resources, result,
                   appUpdates, listed, log, candidate, failed, histVars, aggVars>>

\* One resource: owner references set, Update succeeds (lines 141-159).
SetOwnerRefUpdated ==
    /\ Claiming /\ Accepts(catalog[Claimed.name], Claimed)
    /\ LET written == Written(catalog[Claimed.name], Claimed)
       IN  /\ catalog' = [catalog EXCEPT ![Claimed.name] = written]
           /\ cells' = [cells EXCEPT ![resources[resIdx]] = written]
    /\ resUpdates' = Append(resUpdates, UpdateCall(Claimed, TRUE))
    /\ resIdx' = resIdx + 1
    /\ UNCHANGED <<appStore, listOrder, envVars, pc, app, kindIdx, resources, result,
                   appUpdates, listed, log, candidate, failed, histVars, aggVars>>

\* Variant: a failed Update is returned to Reconcile, which asks for a retry.
SetOwnerRefFailed_Abort ==
    /\ Claiming
    /\ cells' = [cells EXCEPT ![resources[resIdx]] = Claimed]
    /\ resUpdates' = Append(resUpdates, UpdateCall(Claimed, FALSE))
    /\ failed' = failed \cup {"owner"}
    /\ Return(Retry("UpdateError"))
    /\ UNCHANGED <<storeVars, envVars, app, kindIdx, resources, resIdx,
                   appUpdates, listed, log, candidate, histVars, aggVars>>

\* One resource: owner references set, Update fails, the error is logged and
\* the loop goes on (lines 141-165).
SetOwnerRefFailed ==
    /\ Claiming
    /\ cells' = [cells EXCEPT ![resources[resIdx]] = Claimed]
    /\ resUpdates' = Append(resUpdates, UpdateCall(Claimed, FALSE))
    /\ failed' = failed \cup {"owner"}
    /\ log' = log \cup {[msg |-> "ErrorSettingOwnerRef",
                         subject |-> <<Claimed.group, Claimed.kind, Claimed.namespace,
                                       Claimed.name>>]}
    /\ resIdx' = resIdx + 1
    /\ UNCHANGED <<storeVars, envVars, pc, app, kindIdx, resources, result,
                   appUpdates, listed, candidate, histVars, aggVars>>

\* return nil (line 166): Reconcile goes on to the status (lines 79-84).
SetOwnerRefReturn ==
    /\ pc = "owner" /\ resIdx > Len(resources)
    /\ pc' = "status"
    /\ UNCHANGED <<storeVars, envVars, app, kindIdx, cells, resources, resIdx, result,
                   obsVars, histVars, aggVars>>

\* ------------------------------------------- status and write-back (84-110)
LogSubject(o) == <<o.group, o.kind, o.namespace, o.name>>
Unreadable(objs) ==
    {[msg |-> "unable to compute status for resource", subject |-> LogSubject(objs[i])]
     : i \in {j \in 1 .. Len(objs) : status(objs[j]).err # Nil}}

Computed == NewApplicationStatus(app, Deref(cells, resources))

\* Variant: a failed Update of the Application is not reported.
WriteBack_IgnoresUpdateError ==
    /\ pc = "status"
    /\ candidate' = [set |-> TRUE, status |-> Computed]
    /\ log' = log \cup Unreadable(Deref(cells, resources))
    /\ IF StatusUnchanged(Computed, app)
       THEN Return(Success) /\ UNCHANGED <<appStore, appUpdates, failed>>
       ELSE /\ appUpdates' = appUpdates + 1
            /\ \/ /\ Accepts(appStore, app)
                  /\ appStore' = Written(appStore, [app EXCEPT !.status = Computed])
                  /\ Return(Success)
                  /\ UNCHANGED failed
               \/ /\ failed' = failed \cup {"update"}
                  /\ Return(Success)
                  /\ UNCHANGED appStore
    /\ UNCHANGED <<catalog, listOrder, envVars, app, kindIdx, cells, resources, resIdx,
                   resUpdates, listed, histVars, aggVars>>

\* The comparison and the conditional write-back (lines 84-110): no write when
\* DeepEqual holds; otherwise r.Client.Update, which succeeds or fails.
WriteBack ==
    /\ pc = "status"
    /\ candidate' = [set |-> TRUE, status |-> Computed]
    /\ log' = log \cup Unreadable(Deref(cells, resources))
    /\ IF StatusUnchanged(Computed, app)
       THEN Return(Success) /\ UNCHANGED <<appStore, appUpdates, failed>>
       ELSE /\ appUpdates' = appUpdates + 1
            /\ \/ /\ Accepts(appStore, app)
                  /\ appStore' = Written(appStore, [app EXCEPT !.status = Computed])
                  /\ Return(Success)
                  /\ UNCHANGED failed
               \/ /\ failed' = failed \cup {"update"}
                  /\ Return(Retry("UpdateError"))
                  /\ UNCHANGED appStore
    /\ UNCHANGED <<catalog, listOrder, envVars, app, kindIdx, cells, resources, resIdx,
                   resUpdates, listed, histVars, aggVars>>

\* The scheduler takes the result; the next trigger starts a new pass.
Finish ==
    /\ pc = "done"
    /\ pc' = "idle"
    /\ app' = NoApp /\ kindIdx' = 0 /\ cells' = <<>> /\ resources' = <<>> /\ resIdx' = 0
    /\ result' = NoResult
    /\ appUpdates' = 0 /\ resUpdates' = <<>> /\ listed' = <<>> /\ log' = {}
    /\ candidate' = NoCandidate /\ failed' = {}
    /\ prevOK' = (result.err = Nil)
    /\ changedSince' = FALSE
    /\ UNCHANGED <<storeVars, envVars, aggVars>>

\* --------------------------------- objectStatuses and aggregateReady alone
\* objectStatuses(ctx, resources) on a given slice (line 84).
EvaluateCall ==
    /\ pc = "evaluate"
    /\ evalOut' = objectStatuses(evalIn)
    /\ log' = log \cup Unreadable(evalIn)
    /\ pc' = "aggregate"
    /\ UNCHANGED <<storeVars, envVars, app, kindIdx, cells, resources, resIdx, result,
                   appUpdates, resUpdates, listed, candidate, failed, histVars, evalIn, aggOut>>

\* aggregateReady(objectStatuses) on its result (line 85).
AggregateCall ==
    /\ pc = "aggregate"
    /\ aggOut' = aggregateReady(evalOut)
    /\ pc' = "aggregated"
    /\ UNCHANGED <<storeVars, envVars, app, kindIdx, cells, resources, resIdx, result,
                   obsVars, histVars, evalIn, evalOut>>

\* ---------------------------------------------------------- other actors
External ==
    /\ externals < MaxExternal /\ externals' = externals + 1 /\ changedSince' = TRUE
    /\ UNCHANGED <<initialRefs, other>>

\* The Application's owner edits its spec.
ExternalSpecChange ==
    /\ External /\ appStore.present /\ appStore.deletionTimestamp = Nil
    /\ appStore' = [appStore EXCEPT !.spec.addOwnerRef = ~@, !.generation = @ + 1, !.rv = @ + 1]
    /\ UNCHANGED <<catalog, listOrder, passVars, obsVars, prevOK, aggVars>>

\* The Application is marked for deletion.
ExternalDelete ==
    /\ External /\ appStore.present /\ appStore.deletionTimestamp = Nil
    /\ appStore' = [appStore EXCEPT !.deletionTimestamp = "set", !.rv = @ + 1]
    /\ UNCHANGED <<catalog, listOrder, passVars, obsVars, prevOK, aggVars>>

\* A component reports another state.
ExternalReport ==
    /\ External
    /\ \E id \in 0 .. MaxWidgets, r \in Reports :
          /\ catalog[id].present /\ catalog[id].report # r
          /\ catalog' = [catalog EXCEPT ![id].report = r, ![id].rv = @ + 1]
    /\ UNCHANGED <<appStore, listOrder, passVars, obsVars, prevOK, aggVars>>

\* ------------------------------------- the pass for the second Application
\* Get, then fetchComponentListResources for its one kind (lines 58-74, 113-137).
OtherFetch ==
    /\ other.pc = "idle"
    /\ LET items == List(App2.spec.componentGroupKinds[1], App2.namespace,
                         App2.spec.selector.matchLabels)
           appended == AppendItems(<<>>, <<>>, items)
       IN  other' = [other EXCEPT !.pc = "owner", !.cells = appended.cells,
                                  !.resources = appended.resources, !.resIdx = 1]
    /\ UNCHANGED <<storeVars, externals, initialRefs, passVars, obsVars, histVars, aggVars>>

OtherClaiming == other.pc = "owner" /\ other.resIdx <= Len(other.resources)
OtherClaimed ==
    LET resource == other.cells[other.resources[other.resIdx]]
    IN  [resource EXCEPT !.ownerRefs = SetOwnerReference(resource.ownerRefs, NewOwnerRef(App2))]

\* One resource: owner references set, Update succeeds (lines 141-159).
OtherSetOwnerRefUpdated ==
    /\ OtherClaiming /\ Accepts(catalog[OtherClaimed.name], OtherClaimed)
    /\ LET written == Written(catalog[OtherClaimed.name], OtherClaimed)
       IN  /\ catalog' = [catalog EXCEPT ![OtherClaimed.name] = written]
           /\ other' = [other EXCEPT !.cells[other.resources[other.resIdx]] = written,
                                      !.resIdx = @ + 1]
    /\ UNCHANGED <<appStore, listOrder, externals, initialRefs, passVars, obsVars,
                   histVars, aggVars>>

\* One resource: owner references set, Update fails and is logged (lines 141-165).
OtherSetOwnerRefFailed ==
    /\ OtherClaiming
    /\ other' = [other EXCEPT !.cells[other.resources[other.resIdx]] = OtherClaimed,
                               !.resIdx = @ + 1]
    /\ UNCHANGED <<storeVars, externals, initialRefs, passVars, obsVars, histVars, aggVars>>

\* The status of the second Application is computed and written back, or the
\* Update fails; the pass returns (lines 84-110).
OtherWriteBack ==
    /\ other.pc = "owner" /\ other.resIdx > Len(other.resources)
    /\ \/ other' = OtherIdle(NewApplicationStatus([App2 EXCEPT !.status = other.status],
                                                   Deref(other.cells, other.resources)))
       \/ other' = OtherIdle(other.status)
    /\ UNCHANGED <<storeVars, externals, initialRefs, passVars, obsVars, histVars, aggVars>>

OtherPass == OtherFetch \/ OtherSetOwnerRefUpdated \/ OtherSetOwnerRefFailed \/ OtherWriteBack

Pass ==
    \/ GetError \/ GetNotFound \/ GetFound
    \/ FetchSkipUnknown \/ FetchNilSelector \/ FetchListError \/ FetchList \/ FetchReturn
    \/ SetOwnerRefUpdated \/ SetOwnerRefFailed \/ SetOwnerRefReturn
    \/ WriteBack
    \/ Finish

Next == Pass \/ EvaluateCall \/ AggregateCall

Spec == Init /\ [][Next]_vars

\* Passes of the reconciler while other actors write the Application and the
\* component resources.
InitOpen ==
    /\ Init /\ pc = "idle"
    /\ catalog = DefaultCatalog /\ listOrder = "ascending"
    /\ appStore.present =>
           /\ appStore.deletionTimestamp = Nil /\ appStore.status = NoStatus
           /\ appStore.spec.componentGroupKinds
                  \in {<<WidgetGK>>, <<WidgetGK, GadgetGK>>, <<UnknownGK, WidgetGK>>}
NextOpen == Pass \/ ExternalSpecChange \/ ExternalDelete \/ ExternalReport
SpecOpen == InitOpen /\ [][NextOpen]_vars

\* Passes for two Applications that select the same resources, interleaved at
\* every call to the store.
InitTwo ==
    /\ Init /\ pc = "idle"
    /\ appStore.present /\ appStore.deletionTimestamp = Nil
    /\ appStore.spec.selector.present /\ appStore.spec.addOwnerRef
    /\ appStore.spec.componentGroupKinds \in {<<WidgetGK>>, <<WidgetGK, GadgetGK>>}
    /\ \A id \in ResIds :
          /\ catalog[id].present /\ catalog[id].report = "Ready"
          /\ id >= 0 => catalog[id].ownerRefs = catalog[0].ownerRefs
NextTwo ==
    \/ GetError \/ GetFound \/ FetchListError \/ FetchList \/ FetchReturn
    \/ SetOwnerRefUpdated \/ SetOwnerRefFailed \/ SetOwnerRefReturn
    \/ WriteBack \/ Finish
    \/ OtherPass
SpecTwo == InitTwo /\ [][NextTwo]_vars

\* Passes re-triggered for ever over a store nobody else writes. Every call may
\* fail, but none fails for ever: the Get, the List of each kind, the Update of
\* each entry of the resources slice and the Update of the Application each
\* succeed again and again.
InitLive ==
    /\ Init /\ pc = "idle"
    /\ appStore.present /\ appStore.deletionTimestamp = Nil
    /\ appStore.spec.selector.present
    /\ appStore.spec.componentGroupKinds \in {<<WidgetGK>>, <<WidgetGK, GadgetGK>>}
    /\ listOrder = "ascending"
    /\ \A id \in ResIds : catalog[id].report # "Malformed" /\ catalog[id].ownerRefs = <<>>
NextLive ==
    \/ GetError \/ GetFound \/ FetchListError \/ FetchList \/ FetchReturn
    \/ SetOwnerRefUpdated \/ SetOwnerRefFailed \/ SetOwnerRefReturn
    \/ WriteBack \/ Finish
FairLive ==
    /\ WF_vars(NextLive)
    /\ SF_vars(GetFound)
    /\ \A k \in 1 .. MaxKinds : SF_vars(FetchList /\ kindIdx = k)
    /\ \A i \in 1 .. MaxWidgets + 1 : SF_vars(SetOwnerRefUpdated /\ resIdx = i)
    /\ SF_vars(WriteBack /\ result' = Success)
SpecLive == InitLive /\ [][NextLive]_vars /\ FairLive

\* ================================================================ claims
ReadyCondition ==
    [type |-> "Ready", status |-> "True", reason |-> "ComponentsReady",
     message |-> "all components ready"]
NotReadyCondition ==
    [type |-> "Ready", status |-> "False", reason |-> "ComponentsNotReady",
     message |-> "some components not ready"]

Discovered == Deref(cells, resources)
Readable(objs) == SelectSeq(objs, LAMBDA o : o.report # "Malformed")
StatusEntries(objs) == [i \in 1 .. Len(objs) |-> ObjectStatusOf(objs[i], objs[i].report)]
AllReady(objs) == \A i \in 1 .. Len(objs) : objs[i].report = StatusReady
Range(f) == {f[i] : i \in DOMAIN f}

\* The pass got past Get and the deletion check.
Reconciling == app # NoApp /\ app.deletionTimestamp = Nil
\* The pass ran to its end and stored or kept the status.
Completed == pc = "done" /\ result = Success /\ candidate.set

\* C1: when a pass has returned without error and nothing was changed
\* afterwards, the next pass issues no update call, neither for the
\* Application nor for a component resource.
C1_SecondPassWritesNothing ==
    (prevOK /\ ~changedSince) => (appUpdates = 0 /\ resUpdates = <<>>)

\* C2: after a successful pass over n >= 1 matched resources that all evaluate
\* without error, the stored component list has n entries, one for each matched
\* resource with its own group, kind, name and classification, and the stored
\* condition is Ready/ComponentsReady iff every matched resource is Ready,
\* otherwise NotReady/ComponentsNotReady.
C2_StatusReflectsEveryMatch ==
    (Completed /\ Len(listed) >= 1 /\ Readable(listed) = listed) =>
        /\ Len(appStore.status.objects) = Len(listed)
        /\ Range(appStore.status.objects) = Range(StatusEntries(listed))
        /\ appStore.status.condition =
               IF AllReady(listed) THEN ReadyCondition ELSE NotReadyCondition

\* C3: in a pass that reaches the comparison, the Application is written iff
\* the candidate status differs structurally from the status read; when they
\* are equal the pass returns success without a write.
C3_WriteIffStatusDiffers ==
    (pc = "done" /\ candidate.set) =>
        /\ (appUpdates > 0) <=> (candidate.status # app.status)
        /\ (candidate.status = app.status) => (result = Success /\ appUpdates = 0)

\* C4: fetchComponentListResources returns the concatenation of what the catalog
\* lists for the resolvable kinds, in groupKinds order then catalog order, each
\* listed resource once as itself: n entries for a kind are n different
\* resources, never n references to one.
C4_FetchReturnsEachListedResource ==
    (pc = "fetch" /\ kindIdx > Len(app.spec.componentGroupKinds)) =>
        /\ Discovered = listed
        /\ \A i, j \in 1 .. Len(resources) : resources[i] = resources[j] => i = j

\* C5: aggregateReady is true iff every entry is Ready, true for the empty
\* sequence, and the same for every permutation of the entries.
C5_AggregateReadyIsAllReady ==
    pc = "aggregated" =>
        /\ aggOut = (\A i \in 1 .. Len(evalOut) : evalOut[i].status = StatusReady)
        /\ (evalOut = <<>>) => aggOut
        /\ \A p \in Permutations(1 .. Len(evalOut)) :
               aggregateReady([i \in 1 .. Len(evalOut) |-> evalOut[p[i]]]) = aggOut
C5_ReadyThenNotReady ==
    /\ pc = "aggregated" /\ Len(evalOut) >= 2
    /\ evalOut[1].status = StatusReady /\ ~aggOut

\* C6: the status a successful pass leaves in the store is determined by the
\* generation read and the component resources read in that pass, whatever
\* status was stored before.
StatusFromReads(generation, objs) ==
    [observedGeneration |-> generation,
     objects |-> StatusEntries(Readable(objs)),
     condition |-> IF AllReady(Readable(objs)) THEN ReadyCondition ELSE NotReadyCondition]
C7_ListFailureAbortsPass ==
    ("list" \in failed) =>
        /\ pc = "done" /\ result = Retry("ListError")
        /\ appUpdates = 0 /\ resUpdates = <<>> /\ ~candidate.set
        /\ appStore = app
C7_ListFailsAfterAListing ==
    /\ "list" \in failed /\ Len(listed) >= 1 /\ app.spec.addOwnerRef

\* C8: an unresolvable (group, kind) is logged and skipped without an error;
\* the other kinds of the list, before and after it, are still listed and
\* returned; with only unresolvable kinds discovery returns nothing and the
\* pass goes on to compute and write the status.
RECURSIVE ListedFor(_)
ListedFor(gks) ==
    IF gks = <<>> THEN <<>>
    ELSE (IF RESTMapping(Head(gks))
          THEN List(Head(gks), app.namespace, app.spec.selector.matchLabels)
          ELSE <<>>) \o ListedFor(Tail(gks))
NoMappingLogged(gks) ==
    \A i \in 1 .. Len(gks) :
        ~RESTMapping(gks[i]) =>
            [msg |-> "NoMappingForGK", subject |-> <<gks[i].group, gks[i].kind>>] \in log
C9_EvaluationFailuresSkipped ==
    /\ pc \in {"aggregate", "aggregated"} =>
           /\ evalOut = StatusEntries(Readable(evalIn))
           /\ Unreadable(evalIn) \subseteq log
    /\ pc = "aggregated" => aggOut = AllReady(Readable(evalIn))
    /\ (pc = "done" /\ Reconciling /\ "list" \notin failed) =>
           /\ candidate.set
           /\ candidate.status.objects = StatusEntries(Readable(Discovered))
           /\ candidate.status.condition =
                  IF AllReady(Readable(Discovered)) THEN ReadyCondition ELSE NotReadyCondition
           /\ Unreadable(Discovered) \subseteq log
           /\ appUpdates = 1
           /\ result.requeue => "update" \in failed
C9_MiddleResourceFails ==
    /\ pc = "aggregated" /\ Len(evalIn) = 3
    /\ evalIn[1].report # "Malformed" /\ evalIn[2].report = "Malformed"
    /\ evalIn[3].report # "Malformed"
    /\ Len(evalOut) = 2

\* C10: with ownership claiming on, a failed update of a component resource is
\* logged and does not stop the pass: an update is attempted for every
\* discovered resource, the status is computed and conditionally written, and
\* no error or retry request comes from an owner-reference write failure.
C10_OwnerRefFailuresAbsorbed ==
    /\ (pc \in {"status", "done"} /\ Reconciling /\ app.spec.addOwnerRef
            /\ "list" \notin failed) =>
           /\ Len(resUpdates) = Len(resources)
           /\ \A i \in 1 .. Len(resources) :
                  /\ resUpdates[i].name = Discovered[i].name
                  /\ resUpdates[i].kind = Discovered[i].kind
                  /\ ~resUpdates[i].ok =>
                         [msg |-> "ErrorSettingOwnerRef", subject |-> LogSubject(Discovered[i])]
                             \in log
    /\ ("owner" \in failed /\ pc = "done") =>
           /\ candidate.set /\ appUpdates = 1
           /\ result.err # Nil => "update" \in failed
           /\ result.requeue => "update" \in failed
C10_FailureThenFurtherUpdate ==
    /\ pc = "done" /\ result = Success /\ "owner" \in failed
    /\ \E i, j \in 1 .. Len(resUpdates) : i < j /\ ~resUpdates[i].ok /\ resUpdates[j].ok

\* Owner references naming this Application: same kind, API version and name.
NamesApp(ref) == SameOwner(CurrentRef, ref)
CountNaming(refs) == Cardinality({i \in 1 .. Len(refs) : NamesApp(refs[i])})
ClaimedLists == {catalog[id].ownerRefs : id \in ResIds} \cup {cells[c].ownerRefs : c \in DOMAIN cells}

\* C11: claiming is idempotent. Claiming a resource again with the same owner
\* identity leaves its owner-reference list as the first claim left it, and a
\* resource that started without a reference to the Application never carries
\* more than one reference naming it, in the store or in a pass's copy,
\* however many passes and claims there were.
C11_ClaimingIsIdempotent ==
    /\ \A refs \in ClaimedLists :
           LET once == SetOwnerReference(refs, CurrentRef)
           IN  SetOwnerReference(once, CurrentRef) = once
    /\ \A i \in 1 .. Len(resUpdates) :
           resUpdates[i].ok =>
               SetOwnerReference(catalog[resUpdates[i].name].ownerRefs, NewOwnerRef(app))
                   = catalog[resUpdates[i].name].ownerRefs
    /\ \A id \in ResIds :
           CountNaming(initialRefs[id]) = 0 =>
               /\ CountNaming(catalog[id].ownerRefs) <= 1
               /\ \A c \in DOMAIN cells :
                      cells[c].name = id => CountNaming(cells[c].ownerRefs) <= 1
C11_ClaimedTwiceWrittenOnce ==
    /\ pc = "done"
    /\ \E i, j \in 1 .. Len(resUpdates) :
          /\ i < j /\ resUpdates[i].ok /\ resUpdates[j].ok
          /\ resUpdates[i].name = resUpdates[j].name
          /\ initialRefs[resUpdates[i].name] = <<OtherRef>>
          /\ catalog[resUpdates[i].name].ownerRefs = <<OtherRef, CurrentRef>>
          /\ catalog[resUpdates[i].name].rv = 2

\* What one claim may do to an owner-reference list.
FrameEffect(old, new) ==
    /\ Len(new) = IF \E i \in 1 .. Len(old) : NamesApp(old[i]) THEN Len(old) ELSE Len(old) + 1
    /\ \A i \in 1 .. Len(old) :
           new[i] = IF NamesApp(old[i]) /\ old[i].uid # AppUID THEN CurrentRef ELSE old[i]
    /\ Len(new) > Len(old) => new[Len(new)] = CurrentRef
    /\ CurrentRef.controller = FALSE

\* C12: a claim changes a resource's owner-reference list, stored or in the
\* pass's copy, only by replacing in place an entry with the Application's
\* kind, API version and name and another UID, or, when no entry has that
\* kind, API version and name, by appending exactly one entry at the end;
\* every other entry keeps its value and position, and the reference written
\* is never marked as the controlling owner.
C12_ClaimFrameEffect ==
    [][/\ \A id \in ResIds :
             catalog'[id].ownerRefs # catalog[id].ownerRefs =>
                 FrameEffect(catalog[id].ownerRefs, catalog'[id].ownerRefs)
       /\ \A c \in (DOMAIN cells) \cap (DOMAIN cells') :
             cells'[c].ownerRefs # cells[c].ownerRefs =>
                 FrameEffect(cells[c].ownerRefs, cells'[c].ownerRefs)]_vars
C12_ReplacedInPlaceAndAppended ==
    /\ \E id \in ResIds :
          /\ initialRefs[id] = <<StaleRef, OtherRef>>
          /\ catalog[id].ownerRefs = <<CurrentRef, OtherRef>>
    /\ \E id \in ResIds :
          /\ initialRefs[id] = <<OtherRef>>
          /\ catalog[id].ownerRefs = <<OtherRef, CurrentRef>>

\* C13: ownership claiming is opt-in. A pass that read the Application with
\* spec.addOwnerRef false makes no Update call for a component resource, and
\* while the stored flag is false no component resource is ever written: each
\* keeps its owner references and its version. Only the Application is written.
C13_NoClaimWithoutOptIn ==
    /\ (app # NoApp /\ ~app.spec.addOwnerRef) => (resUpdates = <<>> /\ pc # "owner")
    /\ (appStore.present /\ ~appStore.spec.addOwnerRef) =>
           \A id \in ResIds : catalog[id].ownerRefs = initialRefs[id] /\ catalog[id].rv = 1
C13_StatusWrittenResourcesUntouched ==
    /\ Completed /\ ~app.spec.addOwnerRef
    /\ Len(resources) >= 2
    /\ appUpdates = 1 /\ appStore.rv > app.rv

\* C14: the reconciler only rewrites the Application's status. No step of a
\* pass creates or deletes the stored Application or changes its spec, its
\* generation or its deletion mark; in particular a pass that read the
\* Application before another actor changed the spec does not undo that change
\* when it writes back.
C14_ReconcilerWritesStatusOnly ==
    [][externals' = externals =>
          /\ appStore'.present = appStore.present
          /\ appStore.present =>
                 /\ appStore'.spec = appStore.spec
                 /\ appStore'.generation = appStore.generation
                 /\ appStore'.deletionTimestamp = appStore.deletionTimestamp
                 /\ appStore'.name = appStore.name /\ appStore'.uid = appStore.uid]_vars
C14_StaleWriteBackRefused ==
    /\ pc = "done" /\ app # NoApp
    /\ app.generation < appStore.generation /\ app.spec # appStore.spec
    /\ appUpdates = 1 /\ "update" \in failed
    /\ appStore.status = app.status

\* C15: a pass whose Get answers not found, or returns an Application that
\* carries a deletion mark, returns success without a retry request, lists no
\* component kind and writes nothing: no kind is reached, no Update call is
\* made, no status is computed, and the stored objects stay as they were.
FoundNothingToDo ==
    \/ app = NoApp /\ "get" \notin failed
    \/ app # NoApp /\ app.deletionTimestamp # Nil
C15_ShortCircuit ==
    /\ (app # NoApp /\ app.deletionTimestamp # Nil) => pc = "done"
    /\ (pc = "done" /\ FoundNothingToDo) =>
           /\ result = Success
           /\ kindIdx = 0 /\ listed = <<>> /\ cells = <<>> /\ "list" \notin failed
           /\ appUpdates = 0 /\ resUpdates = <<>> /\ ~candidate.set
           /\ log = {}
    /\ (~appStore.present \/ appStore.deletionTimestamp # Nil) =>
           /\ \A id \in ResIds : catalog[id].rv = 1 /\ catalog[id].ownerRefs = initialRefs[id]
           /\ appStore.present => (appStore.rv = 1 /\ appStore.status = NoStatus)
C15_DeletionMarkedOptedIn ==
    /\ pc = "done" /\ app # NoApp /\ app.deletionTimestamp # Nil
    /\ app.spec.addOwnerRef /\ app.spec.componentGroupKinds # <<>>
    /\ result = Success /\ prevOK

\* C16: a pass returns a retry request together with an error exactly when one
\* of its fatal calls failed: the Get (other than not found), a List, or the
\* Update of the Application. Every other return, including passes with
\* unknown kinds, unreadable resources or failed owner-reference updates,
\* carries no retry request and no error; nothing is returned before the end.
FatalCalls == {"get", "list", "update"}
C16_RetryIffFatalFailure ==
    /\ pc = "done" =>
           /\ result.requeue <=> result.err # Nil
           /\ result.requeue <=> (failed \cap FatalCalls # {})
           /\ ~result.requeue => result = Success
    /\ pc \notin {"done"} => result = NoResult
C16_SuccessDespiteEveryMinorFailure ==
    /\ pc = "done" /\ result = Success
    /\ "owner" \in failed
    /\ \E e \in log : e.msg = "NoMappingForGK"
    /\ \E e \in log : e.msg = "ErrorSettingOwnerRef"
    /\ \E e \in log : e.msg = "unable to compute status for resource"

\* The owner reference of the second Application, and what passes of the two
\* Applications run one after the other can leave behind: a resource's list
\* with each claim applied or not, in either order, and for each Application
\* no status or the status one pass computes.
App2Ref == [CurrentRef EXCEPT !.name = "app2", !.uid = "uid-2"]
SequentialOwnerRefs(refs) ==
    LET byApp1 == SetOwnerReference(refs, CurrentRef)
        byApp2 == SetOwnerReference(refs, App2Ref)
    IN  {refs, byApp1, byApp2, SetOwnerReference(byApp1, App2Ref),
         SetOwnerReference(byApp2, CurrentRef)}
RECURSIVE FetchedFor(_, _)
FetchedFor(gks, a) ==
    IF gks = <<>> THEN <<>>
    ELSE LET items == List(Head(gks), a.namespace, a.spec.selector.matchLabels)
         IN  (IF RESTMapping(Head(gks)) THEN Deref(AppendItems(<<>>, <<>>, items).cells,
                                                   AppendItems(<<>>, <<>>, items).resources)
              ELSE <<>>) \o FetchedFor(Tail(gks), a)
SequentialStatus(a) ==
    LET fetched == FetchedFor(a.spec.componentGroupKinds, a)
    IN  StatusFromReads(a.generation, fetched)

\* C17: passes for two Applications that both claim ownership and select a
\* common resource are independent. No step of either pass removes from a
\* resource an owner reference of either Application that is stored, or
\* shortens a list; and after every step each resource's owner references and
\* both stored statuses are what passes run one after the other can produce.
C17_ConcurrentPassesIndependent ==
    [][/\ \A id \in ResIds :
             /\ Len(catalog'[id].ownerRefs) >= Len(catalog[id].ownerRefs)
             /\ \A ref \in {CurrentRef, App2Ref} :
                    ref \in Range(catalog[id].ownerRefs) => ref \in Range(catalog'[id].ownerRefs)
             /\ catalog'[id].ownerRefs \in SequentialOwnerRefs(initialRefs[id])
       /\ appStore'.status \in {NoStatus, SequentialStatus(appStore)}
       /\ other'.status \in {NoStatus, SequentialStatus(App2)}]_vars
C17_StaleCopyRefused ==
    /\ pc = "done" /\ result = Success
    /\ \E i \in 1 .. Len(resUpdates), c \in DOMAIN cells :
          /\ ~resUpdates[i].ok /\ cells[c].name = resUpdates[i].name
          /\ App2Ref \in Range(catalog[cells[c].name].ownerRefs)
          /\ CurrentRef \notin Range(catalog[cells[c].name].ownerRefs)
          /\ App2Ref \notin Range(cells[c].ownerRefs)
          /\ CurrentRef \in Range(cells[c].ownerRefs)
          /\ cells[c].rv < catalog[cells[c].name].rv

\* What the Application's selector matches in the store, kind by kind.
RECURSIVE MatchedFor(_, _)
MatchedFor(gks, a) ==
    IF gks = <<>> THEN <<>>
    ELSE (IF RESTMapping(Head(gks))
          THEN List(Head(gks), a.namespace, a.spec.selector.matchLabels)
          ELSE <<>>) \o MatchedFor(Tail(gks), a)
Matched == MatchedFor(appStore.spec.componentGroupKinds, appStore)

\* C18: for an Application that opts in, with the matched resources unchanged
\* and no call failing for ever, every matched resource eventually carries an
\* owner reference with the Application's current UID and keeps it.
C18_EveryMatchEventuallyOwned ==
    <>[](appStore.spec.addOwnerRef =>
            \A i \in 1 .. Len(Matched) : CurrentRef \in Range(catalog[Matched[i].name].ownerRefs))

\* The part of it the code achieves: the last listed resource of each kind.
C18_LastOfEachKindEventuallyOwned ==
    <>[](appStore.spec.addOwnerRef =>
            \A i \in 1 .. Len(Matched) :
                (i = Len(Matched) \/ Matched[i + 1].kind # Matched[i].kind) =>
                    CurrentRef \in Range(catalog[Matched[i].name].ownerRefs))

\* C19: with the Application's spec and the matched resources unchanged and no
\* call failing for ever, the stored status eventually has the Application's
\* generation as observed generation, one component entry per currently
\* matched resource, and the readiness condition that is the aggregate of
\* those resources, and stays so.
C19_StatusEventuallyReflectsMatches ==
    <>[](appStore.status = StatusFromReads(appStore.generation, Matched))

\* The part of it the code achieves: the status one pass computes is stored
\* and stays.
C19_StatusEventuallyStable ==
    <>[](appStore.status = SequentialStatus(appStore))

\* C20: a pass never crashes. For every Application that can be fetched, also
\* one without a label selector whose component kinds include a kind the
\* cluster knows, the pass ends by returning and never by a panic.
C20_PassNeverPanics == pc # "panic"

====
